---- MODULE Spec2Model ----
(***************************************************************************)
(* GFM-IAIF (gfmiaif.ipynb): estimation of the vocal-tract, glottis and    *)
(* lip-radiation linear-prediction filters of one speech frame.            *)
(*                                                                         *)
(* The notebook is a sequence of cells over module-level variables.  Each  *)
(* cell is one action; the iteration of the gross-glottis loop is one      *)
(* action per pass.  An exception ends the run in pc = "error", with the   *)
(* assignments made before the raising statement kept.                     *)
(*                                                                         *)
(* Numbers.  The notebook computes in IEEE doubles.  Here a real value v   *)
(* is the integer Round(v * Scale): sums are exact, every product and      *)
(* quotient rounds to the nearest multiple of 1/Scale, the way a floating  *)
(* product or quotient rounds to the nearest representable value.          *)
(***************************************************************************)
EXTENDS Integers, Sequences, FiniteSets, TLC

VARIABLES
    s_gvl, nv, ng, d, win,        \* the parameter cell's variables
    Lpf, x_gvl, idx_pf,           \* pre-frame cell
    al, s_gv, x_gv,               \* lip-radiation cell
    ag1, i, x_v1x, s_v1x, ag1x,   \* gross glottis cell
    x_g1, s_g1, ag,               \* fine glottis cell
    x_v, s_v, av,                 \* fine vocal tract cell
    result,                       \* the value of the last cell (av, ag, al)
    range_pos,                    \* items consumed from range(ng) by the for loop
    pc, err,                      \* next cell to execute; the exception raised
    args,                         \* the inputs of the current run, as given
    calls,                        \* lfilter / lb.lpc invocations of the current run
    runs                          \* number of runs started

vars == <<s_gvl, nv, ng, d, win, Lpf, x_gvl, idx_pf, al, s_gv, x_gv,
          ag1, i, x_v1x, s_v1x, ag1x, x_g1, s_g1, ag, x_v, s_v, av,
          result, range_pos, pc, err, args, calls, runs>>

-----------------------------------------------------------------------------
(* Bounds of the model *)

MaxN == 3
MaxOrd == 2
MaxRuns == 2

-----------------------------------------------------------------------------
(* Fixed-point numbers *)

Scale == 2^7

Round(n, m) == (2 * n + m) \div (2 * m)

FxMul(a, b) == Round(a * b, Scale)

FxDiv(a, b) == IF b > 0 THEN Round(a * Scale, b) ELSE Round((0 - a) * Scale, 0 - b)

Fx(n) == n * Scale

RECURSIVE SumSeq(_)
SumSeq(u) == IF u = <<>> THEN 0 ELSE Head(u) + SumSeq(Tail(u))

Min(a, b) == IF a < b THEN a ELSE b

\* np.dot(u, v) of two equally long vectors
Dot(u, v) == SumSeq([n \in 1..Len(u) |-> FxMul(u[n], v[n])])

-----------------------------------------------------------------------------
(* numpy / scipy primitives *)

\* np.hanning(M): 0.5 - 0.5*cos(2*pi*n/(M-1)); [1.] for M = 1, [] for M = 0.
\* The values are rational for M <= 5.
Hanning(M) ==
    CASE M = 0 -> <<>>
      [] M = 1 -> <<Scale>>
      [] M = 2 -> <<0, 0>>
      [] M = 3 -> <<0, Scale, 0>>
      [] M = 4 -> <<0, (3 * Scale) \div 4, (3 * Scale) \div 4, 0>>
      [] M = 5 -> <<0, Scale \div 2, Scale, Scale \div 2, 0>>

\* np.linspace(a, b, num): num samples from a to b inclusive
Linspace(a, b, num) ==
    IF num = 1 THEN <<a>>
    ELSE LET step == FxDiv(b - a, Fx(num - 1))
         IN  [n \in 1..num |-> a + FxMul(Fx(n - 1), step)]

\* np.multiply(u, v) broadcasts a one-element operand and raises ValueError
\* when the shapes cannot be broadcast together.
CanBroadcast(u, v) == Len(u) = Len(v) \/ Len(u) = 1 \/ Len(v) = 1

Multiply(u, v) ==
    IF Len(u) = Len(v) THEN [n \in 1..Len(u) |-> FxMul(u[n], v[n])]
    ELSE IF Len(u) = 1 THEN [n \in 1..Len(v) |-> FxMul(u[1], v[n])]
    ELSE [n \in 1..Len(u) |-> FxMul(u[n], v[1])]

\* np.convolve(u, v): polynomial product, Len(u) + Len(v) - 1 coefficients
Convolve(u, v) ==
    [n \in 1..(Len(u) + Len(v) - 1) |->
        SumSeq([k \in 1..Len(u) |->
            IF n - k + 1 >= 1 /\ n - k + 1 <= Len(v)
            THEN FxMul(u[k], v[n - k + 1]) ELSE 0])]

\* scipy.signal.lfilter(b, a, x): b is the numerator, a the denominator,
\*   a[0]*y[n] = b[0]*x[n] + ... + b[nb]*x[n-nb] - a[1]*y[n-1] - ... - a[na]*y[n-na]
\* with zero initial state; the output has the length of x.
RECURSIVE LfilterFrom(_, _, _, _)
LfilterFrom(b, a, x, y) ==
    IF Len(y) = Len(x) THEN y
    ELSE LET n == Len(y) + 1
             ff == SumSeq([k \in 1..Min(Len(b), n) |-> FxMul(b[k], x[n - k + 1])])
             fb == SumSeq([k \in 1..Min(Len(a) - 1, n - 1) |-> FxMul(a[k + 1], y[n - k])])
         IN  LfilterFrom(b, a, x, Append(y, FxDiv(ff - fb, a[1])))

Lfilter(b, a, x) == LfilterFrom(b, a, x, <<>>)

\* Faulty variant of InverseFilter: the estimate taken as the denominator.
InverseFilterAsDenominator(est, x) == Lfilter(<<Scale>>, est, x)

\* lfilter(est, [1.0], x): the estimate est is the numerator b, [1.0] the
\* denominator a
InverseFilter(est, x) == Lfilter(est, <<Scale>>, x)

\* x[idx]: indexing with an array of 0-based indices
Take(x, idx) == [n \in 1..Len(idx) |-> x[idx[n] + 1]]

\* np.arange(lo, hi)
Arange(lo, hi) == [n \in 1..(IF hi > lo THEN hi - lo ELSE 0) |-> lo + n - 1]

-----------------------------------------------------------------------------
(* librosa.lpc(y, order): Burg's method *)

\* What the reads bwd_pred_error[-1] and fwd_pred_error[0] find once the
\* prediction-error vectors are empty (order >= len(y), reached when rounding
\* leaves den > 0).  The compiled loop does not check bounds, so the squares
\* subtracted from den are whatever lies next to the buffer: either too little
\* to change the sign of den (0) or enough to make it non-positive (1).
JunkChoices == {0, 1}

LpcOk(a, oob) == [err |-> "", a |-> a, oob |-> oob]
LpcFail(e, oob) == [err |-> e, a |-> <<>>, oob |-> oob]

\* The guard at the head of every iteration of the Burg loop.
IllConditioned(den) == den <= 0

\* Faulty variant of Reflect: the backward error normalised by the forward error
\* energy alone, which does not keep the coefficient within [-1, 1].
ReflectForwardOnly(fwd, bwd, den) ==
    IF Dot(fwd, fwd) = 0 THEN 0
    ELSE FxDiv((0 - 1) * Dot(bwd, fwd), Dot(fwd, fwd))

\* The reflection coefficient of one iteration (eqn 15 of Marple).
Reflect(fwd, bwd, den) == FxDiv((0 - 2) * Dot(bwd, fwd), den)

\* One pass of `for i in range(order)`; it is the 0-based loop index, ar the
\* coefficients found so far (ar[1] = 1, zeros beyond index it + 1).
RECURSIVE LpcIter(_, _, _, _, _, _, _, _)
LpcIter(it, order, ar, fwd, bwd, den, junk, oob) ==
    IF it = order THEN LpcOk(ar, oob)
    ELSE IF IllConditioned(den) THEN LpcFail("FloatingPointError", oob)
    ELSE LET k == Reflect(fwd, bwd, den)
             arN == [j \in 1..Len(ar) |->
                        IF j >= 2 /\ j <= it + 2
                        THEN ar[j] + FxMul(k, ar[it + 3 - j])
                        ELSE ar[j]]
             fwdN == [n \in 1..Len(fwd) |-> fwd[n] + FxMul(k, bwd[n])]
             bwdN == [n \in 1..Len(bwd) |-> bwd[n] + FxMul(k, fwd[n])]
             q == Scale - FxMul(k, k)
             empty == Len(fwd) = 0
             denN == IF empty
                     THEN (IF junk = 0 THEN FxMul(q, den) ELSE 0)
                     ELSE FxMul(q, den) - FxMul(bwdN[Len(bwdN)], bwdN[Len(bwdN)])
                                        - FxMul(fwdN[1], fwdN[1])
         IN  LpcIter(it + 1, order, arN,
                     IF empty THEN <<>> ELSE Tail(fwdN),
                     IF empty THEN <<>> ELSE SubSeq(bwdN, 1, Len(bwdN) - 1),
                     denN, junk, oob \/ empty)

\* librosa's jitted core __lpc(y, order)
Burg(y, order, junk) ==
    LET fwd == IF Len(y) = 0 THEN <<>> ELSE Tail(y)
        bwd == IF Len(y) = 0 THEN <<>> ELSE SubSeq(y, 1, Len(y) - 1)
        ar0 == [j \in 1..(order + 1) |-> IF j = 1 THEN Scale ELSE 0]
    IN  LpcIter(0, order, ar0, fwd, bwd, Dot(fwd, fwd) + Dot(bwd, bwd),
                junk, FALSE)

\* Faulty variant of Lpc: the predictor coefficients without the leading 1.
LpcNoLeadingOne(y, order, junk) ==
    IF order < 1 THEN LpcFail("ParameterError", FALSE)
    ELSE LET r == Burg(y, order, junk)
         IN  IF r.err # "" THEN r ELSE LpcOk(Tail(r.a), r.oob)

\* Faulty variant of Lpc: an ill-conditioned input yields the trivial filter
\* [1, 0, ..., 0] instead of raising.
LpcSilent(y, order, junk) ==
    IF order < 1 THEN LpcFail("ParameterError", FALSE)
    ELSE LET r == Burg(y, order, junk)
         IN  IF r.err # ""
             THEN LpcOk([j \in 1..(order + 1) |-> IF j = 1 THEN Scale ELSE 0], r.oob)
             ELSE r

\* lb.lpc(y, order): order + 1 coefficients, the first one 1.
\* Raises ParameterError unless order is an integer > 0 and
\* FloatingPointError when y is ill-conditioned.
Lpc(y, order, junk) ==
    IF order < 1 THEN LpcFail("ParameterError", FALSE)
    ELSE Burg(y, order, junk)

\* lb.lpc(np.multiply(u, w), order): the product may fail to broadcast.
WindowedLpc(u, w, order, junk) ==
    IF ~CanBroadcast(u, w) THEN LpcFail("ValueError", FALSE)
    ELSE Lpc(Multiply(u, w), order, junk)

-----------------------------------------------------------------------------
(* Inputs *)

Samples == {0 - Scale, 0, Scale}

Frames == UNION {[1..n -> Samples] : n \in 0..MaxN}

Ones(n) == [k \in 1..n |-> Scale]

\* win = [] asks for the default window; a supplied window may have the
\* frame's length or not.
Windows(s) == {<<>>, Ones(Len(s)), Ones(Len(s) + 1)}

\* d = 0.5 is valid; 0 and 1 are not strictly between 0 and 1.
Leaks == {0, Scale \div 2, Scale}

Orders == 0..MaxOrd

AllArgs ==
    UNION {{[s |-> s, nv |-> v, ng |-> g, d |-> l, win |-> w] :
                v \in Orders, g \in Orders, l \in Leaks, w \in Windows(s)} :
           s \in Frames}

-----------------------------------------------------------------------------
(* The record of the primitive invocations of a run *)

LfilterCall(b, a, x) ==
    [fn |-> "lfilter", b |-> b, a |-> a, x |-> x, order |-> 0, junk |-> 0]

LpcCall(y, order, r, junk) ==
    [fn |-> "lpc", b |-> <<>>, a |-> <<>>, x |-> y, order |-> order,
     junk |-> IF r.oob THEN junk ELSE 0]

\* np.multiply raised before lb.lpc was entered: no invocation to record
LogLpc(log, y, order, r, junk) ==
    IF r.err = "ValueError" THEN log ELSE Append(log, LpcCall(y, order, r, junk))

-----------------------------------------------------------------------------
(* The cells *)

\* Faulty variant of Parameters: without `win=[]`, an unsupplied window leaves win
\* as the last run set it.
ParametersKeepWindow(a) ==
    /\ s_gvl' = a.s
    /\ nv' = a.nv
    /\ ng' = a.ng
    /\ d' = a.d
    /\ win' = IF a.win = <<>> THEN win ELSE a.win
    /\ args' = a
    /\ calls' = <<>>
    /\ err' = ""
    /\ pc' = "window"

\* s_gvl=...; nv=...; ng=...; d=...; win=... : the parameter cell, run with
\* the inputs a
Parameters(a) ==
    /\ s_gvl' = a.s
    /\ nv' = a.nv
    /\ ng' = a.ng
    /\ d' = a.d
    /\ win' = a.win
    /\ args' = a
    /\ calls' = <<>>
    /\ err' = ""
    /\ pc' = "window"

InitWith(inputs) ==
    \E a \in inputs :
        /\ s_gvl = a.s /\ nv = a.nv /\ ng = a.ng /\ d = a.d /\ win = a.win
        /\ args = a
        /\ Lpf = 0 /\ x_gvl = <<>> /\ idx_pf = <<>>
        /\ al = <<>> /\ s_gv = <<>> /\ x_gv = <<>>
        /\ ag1 = <<>> /\ i = 0 /\ x_v1x = <<>> /\ s_v1x = <<>> /\ ag1x = <<>>
        /\ x_g1 = <<>> /\ s_g1 = <<>> /\ ag = <<>>
        /\ x_v = <<>> /\ s_v = <<>> /\ av = <<>>
        /\ result = <<>>
        /\ range_pos = 0
        /\ pc = "window" /\ err = ""
        /\ calls = <<>>
        /\ runs = 1

Init == InitWith(AllArgs)

\* Faulty variant of DefaultWindow: the window is replaced whether supplied or not.
DefaultWindowAlways ==
    /\ pc = "window"
    /\ win' = Hanning(Len(s_gvl))
    /\ pc' = "preframe"
    /\ UNCHANGED <<s_gvl, nv, ng, d, Lpf, x_gvl, idx_pf, al, s_gv, x_gv,
                   ag1, i, x_v1x, s_v1x, ag1x, x_g1, s_g1, ag, x_v, s_v, av,
                   result, range_pos, err, args, calls, runs>>

\* s_gvl = s_gvl.ravel(); if not len(list(win)): win = np.hanning(N)
DefaultWindow ==
    /\ pc = "window"
    /\ win' = IF Len(win) = 0 THEN Hanning(Len(s_gvl)) ELSE win
    /\ pc' = "preframe"
    /\ UNCHANGED <<s_gvl, nv, ng, d, Lpf, x_gvl, idx_pf, al, s_gv, x_gv,
                   ag1, i, x_v1x, s_v1x, ag1x, x_g1, s_g1, ag, x_v, s_v, av,
                   result, range_pos, err, args, calls, runs>>

\* Lpf = nv+1; x_gvl = hstack((linspace(-s_gvl[0], s_gvl[0], Lpf), s_gvl));
\* idx_pf = arange(Lpf, x_gvl.shape[0]).  s_gvl[0] raises IndexError on an
\* empty frame, after Lpf is set.
AddPreFrame ==
    /\ pc = "preframe"
    /\ Lpf' = nv + 1
    /\ IF Len(s_gvl) = 0
       THEN /\ pc' = "error" /\ err' = "IndexError"
            /\ UNCHANGED <<x_gvl, idx_pf>>
       ELSE /\ x_gvl' = Linspace(0 - s_gvl[1], s_gvl[1], nv + 1) \o s_gvl
            /\ idx_pf' = Arange(nv + 1, Len(x_gvl'))
            /\ pc' = "lip"
            /\ UNCHANGED err
    /\ UNCHANGED <<s_gvl, nv, ng, d, win, al, s_gv, x_gv,
                   ag1, i, x_v1x, s_v1x, ag1x, x_g1, s_g1, ag, x_v, s_v, av,
                   result, range_pos, args, calls, runs>>

\* Faulty variant of LipRadiationFilter: the sign of d lost.
LipRadiationFilterPlus(leak) == <<Scale, leak>>

\* al = [1.0, -d]
LipRadiationFilter(leak) == <<Scale, 0 - leak>>

\* al = [1.0, -d]; s_gv = lfilter([1.0], al, s_gvl); x_gv = lfilter([1.0], al, x_gvl)
CancelLipRadiation ==
    /\ pc = "lip"
    /\ al' = LipRadiationFilter(d)
    /\ s_gv' = Lfilter(<<Scale>>, al', s_gvl)
    /\ x_gv' = Lfilter(<<Scale>>, al', x_gvl)
    /\ calls' = calls \o <<LfilterCall(<<Scale>>, al', "s_gvl"),
                           LfilterCall(<<Scale>>, al', "x_gvl")>>
    /\ pc' = "gross"
    /\ UNCHANGED <<s_gvl, nv, ng, d, win, Lpf, x_gvl, idx_pf,
                   ag1, i, x_v1x, s_v1x, ag1x, x_g1, s_g1, ag, x_v, s_v, av,
                   result, range_pos, err, args, runs>>

\* Faulty variant of GrossInit: the loop written as `for i in range(1, ng)`.
GrossInitFromOne ==
    /\ pc = "gross"
    /\ \E junk \in JunkChoices :
        LET r == WindowedLpc(s_gv, win, 1, junk) IN
        /\ calls' = LogLpc(calls, "s_gv", 1, r, junk)
        /\ IF r.err # ""
           THEN /\ pc' = "error" /\ err' = r.err
                /\ UNCHANGED <<ag1, range_pos>>
           ELSE /\ ag1' = r.a
                /\ range_pos' = 1
                /\ pc' = IF 1 < ng THEN "loop" ELSE "fineg"
                /\ UNCHANGED err
    /\ UNCHANGED <<s_gvl, nv, ng, d, win, Lpf, x_gvl, idx_pf, al, s_gv, x_gv,
                   i, x_v1x, s_v1x, ag1x, x_g1, s_g1, ag, x_v, s_v, av,
                   result, args, runs>>

\* ag1 = lb.lpc(np.multiply(s_gv, win), 1); then `for i in range(ng)` starts
GrossInit ==
    /\ pc = "gross"
    /\ \E junk \in JunkChoices :
        LET r == WindowedLpc(s_gv, win, 1, junk) IN
        /\ calls' = LogLpc(calls, "s_gv", 1, r, junk)
        /\ IF r.err # ""
           THEN /\ pc' = "error" /\ err' = r.err
                /\ UNCHANGED <<ag1, range_pos>>
           ELSE /\ ag1' = r.a
                /\ range_pos' = 0
                /\ pc' = IF 0 < ng THEN "loop" ELSE "fineg"
                /\ UNCHANGED err
    /\ UNCHANGED <<s_gvl, nv, ng, d, win, Lpf, x_gvl, idx_pf, al, s_gv, x_gv,
                   i, x_v1x, s_v1x, ag1x, x_g1, s_g1, ag, x_v, s_v, av,
                   result, args, runs>>

\* One pass of the loop body:
\*   x_v1x = lfilter(ag1, [1.0], x_gv); s_v1x = x_v1x[idx_pf]
\*   ag1x = lb.lpc(np.multiply(s_v1x, win), 1); ag1 = np.convolve(ag1, ag1x)
GrossIter ==
    /\ pc = "loop"
    /\ i' = range_pos
    /\ x_v1x' = InverseFilter(ag1, x_gv)
    /\ s_v1x' = Take(x_v1x', idx_pf)
    /\ \E junk \in JunkChoices :
        LET r == WindowedLpc(s_v1x', win, 1, junk) IN
        /\ calls' = LogLpc(Append(calls, LfilterCall(ag1, <<Scale>>, "x_gv")),
                           "s_v1x", 1, r, junk)
        /\ IF r.err # ""
           THEN /\ pc' = "error" /\ err' = r.err
                /\ UNCHANGED <<ag1x, ag1, range_pos>>
           ELSE /\ ag1x' = r.a
                /\ ag1' = Convolve(ag1, r.a)
                /\ range_pos' = range_pos + 1
                /\ pc' = IF range_pos + 1 < ng THEN "loop" ELSE "fineg"
                /\ UNCHANGED err
    /\ UNCHANGED <<s_gvl, nv, ng, d, win, Lpf, x_gvl, idx_pf, al, s_gv, x_gv,
                   x_g1, s_g1, ag, x_v, s_v, av, result, args, runs>>

\* Faulty variant of FineGlottis: a failed fit is noted but the run goes on to the
\* next cell with the trivial filter.
FineGlottisGoesOn ==
    /\ pc = "fineg"
    /\ x_g1' = InverseFilter(ag1, x_gv)
    /\ s_g1' = Take(x_g1', idx_pf)
    /\ \E junk \in JunkChoices :
        LET r == WindowedLpc(s_g1', win, ng, junk) IN
        /\ calls' = LogLpc(Append(calls, LfilterCall(ag1, <<Scale>>, "x_gv")),
                           "s_g1", ng, r, junk)
        /\ err' = r.err
        /\ ag' = IF r.err # "" THEN <<Scale>> ELSE r.a
        /\ pc' = "finev"
    /\ UNCHANGED <<s_gvl, nv, ng, d, win, Lpf, x_gvl, idx_pf, al, s_gv, x_gv,
                   ag1, i, x_v1x, s_v1x, ag1x, x_v, s_v, av,
                   result, range_pos, args, runs>>

\* x_g1 = lfilter(ag1, [1.0], x_gv); s_g1 = x_g1[idx_pf]
\* ag = lb.lpc(np.multiply(s_g1, win), ng)
FineGlottis ==
    /\ pc = "fineg"
    /\ x_g1' = InverseFilter(ag1, x_gv)
    /\ s_g1' = Take(x_g1', idx_pf)
    /\ \E junk \in JunkChoices :
        LET r == WindowedLpc(s_g1', win, ng, junk) IN
        /\ calls' = LogLpc(Append(calls, LfilterCall(ag1, <<Scale>>, "x_gv")),
                           "s_g1", ng, r, junk)
        /\ IF r.err # ""
           THEN /\ pc' = "error" /\ err' = r.err
                /\ UNCHANGED ag
           ELSE /\ ag' = r.a
                /\ pc' = "finev"
                /\ UNCHANGED err
    /\ UNCHANGED <<s_gvl, nv, ng, d, win, Lpf, x_gvl, idx_pf, al, s_gv, x_gv,
                   ag1, i, x_v1x, s_v1x, ag1x, x_v, s_v, av,
                   result, range_pos, args, runs>>

\* x_v = lfilter(ag, [1.0], x_gv); s_v = x_v[idx_pf]
\* av = lb.lpc(np.multiply(s_v, win), nv)
FineVocalTract ==
    /\ pc = "finev"
    /\ x_v' = InverseFilter(ag, x_gv)
    /\ s_v' = Take(x_v', idx_pf)
    /\ \E junk \in JunkChoices :
        LET r == WindowedLpc(s_v', win, nv, junk) IN
        /\ calls' = LogLpc(Append(calls, LfilterCall(ag, <<Scale>>, "x_gv")),
                           "s_v", nv, r, junk)
        /\ IF r.err # ""
           THEN /\ pc' = "error" /\ err' = r.err
                /\ UNCHANGED av
           ELSE /\ av' = r.a
                /\ pc' = "result"
                /\ UNCHANGED err
    /\ UNCHANGED <<s_gvl, nv, ng, d, win, Lpf, x_gvl, idx_pf, al, s_gv, x_gv,
                   ag1, i, x_v1x, s_v1x, ag1x, x_g1, s_g1, ag,
                   result, range_pos, args, runs>>

\* av, ag, al
Result ==
    /\ pc = "result"
    /\ result' = <<av, ag, al>>
    /\ pc' = "done"
    /\ UNCHANGED <<s_gvl, nv, ng, d, win, Lpf, x_gvl, idx_pf, al, s_gv, x_gv,
                   ag1, i, x_v1x, s_v1x, ag1x, x_g1, s_g1, ag, x_v, s_v, av,
                   range_pos, err, args, calls, runs>>

Next ==
    \/ DefaultWindow
    \/ AddPreFrame
    \/ CancelLipRadiation
    \/ GrossInit
    \/ GrossIter
    \/ FineGlottis
    \/ FineVocalTract
    \/ Result

\* One estimation, from the parameter cell to the result cell.
Spec == Init /\ [][Next]_vars

-----------------------------------------------------------------------------
(* Several estimations in one kernel: the parameter cell is run again with *)
(* new inputs and every other variable keeps what the last run left in it. *)

SeqFrames ==
    {s \in Frames : /\ Len(s) >= MaxN - 1
                    /\ s[1] = Scale
                    /\ \A n \in 1..Len(s) : s[n] \in {0, Scale}}

SeqArgs ==
    {a \in AllArgs : /\ a.s \in SeqFrames
                     /\ a.nv \in 1..2 /\ a.ng = 1 /\ a.d = Scale \div 2
                     /\ a.win \in {<<>>, Ones(Len(a.s))}}

InitSeq == InitWith(SeqArgs)

NewFrame ==
    /\ pc \in {"done", "error"}
    /\ runs < MaxRuns
    /\ \E a \in SeqArgs : Parameters(a)
    /\ runs' = runs + 1
    /\ UNCHANGED <<Lpf, x_gvl, idx_pf, al, s_gv, x_gv,
                   ag1, i, x_v1x, s_v1x, ag1x, x_g1, s_g1, ag, x_v, s_v, av,
                   result, range_pos>>

NextSeq ==
    \/ DefaultWindow
    \/ AddPreFrame
    \/ CancelLipRadiation
    \/ GrossInit
    \/ GrossIter
    \/ FineGlottis
    \/ FineVocalTract
    \/ Result
    \/ NewFrame

SpecSeq == InitSeq /\ [][NextSeq]_vars

-----------------------------------------------------------------------------
(* Properties *)

ValidLeak(l) == 0 < l /\ l < Scale

\* N >= 1, nv >= 1, ng >= 1, 0 < d < 1
ValidArgs ==
    /\ Len(args.s) >= 1
    /\ args.nv >= 1
    /\ args.ng >= 1
    /\ ValidLeak(args.d)

\* no window supplied, or one of the frame's length
WindowOk == args.win = <<>> \/ Len(args.win) = Len(args.s)

InvalidArgs == ~ValidArgs \/ ~WindowOk

AllZero(u) == \A n \in 1..Len(u) : u[n] = 0

C2_LipRadiation ==
    /\ (pc \in {"gross", "loop", "fineg", "finev", "result", "done"}
            \/ (pc = "error" /\ calls # <<>>))
        => al = <<Scale, 0 - args.d>>
    /\ pc = "done" => result[3] = <<Scale, 0 - args.d>>

\* a completed run with a valid d on a frame that is not constant
C2_Witness ==
    /\ pc = "done"
    /\ ValidLeak(args.d)
    /\ result[3] = <<Scale, 0 - (Scale \div 2)>>
    /\ \E n \in 1..Len(args.s) : args.s[n] # args.s[1]

\* C3 (as claimed): with d outside (0, 1), nv or ng not positive, a window
\* of another length than the frame, or an empty frame, the run ends in an
\* error before any filtering or LPC fit: no lfilter or lb.lpc invocation
\* is made and no result is reached.
C3_InvalidRejected ==
    InvalidArgs =>
        /\ calls = <<>>
        /\ pc \in {"window", "preframe", "lip", "error"}

\* C4: an all-zero frame of any length N >= 1, with valid nv, ng, d and
\* window, fails in the first LPC fit with FloatingPointError (the frame is
\* ill-conditioned) and never reaches a later stage or a result.
C4_DegenerateFrame ==
    (AllZero(args.s) /\ ValidArgs /\ WindowOk) =>
        /\ pc \in {"window", "preframe", "lip", "gross", "error"}
        /\ pc = "error" => err = "FloatingPointError"
        /\ result = <<>>

\* an all-zero frame of the longest length has failed
C4_Witness ==
    /\ AllZero(args.s) /\ ValidArgs /\ WindowOk
    /\ Len(args.s) = MaxN
    /\ pc = "error" /\ err = "FloatingPointError"
    /\ Len(calls) = 3

(* The estimation of one input tuple alone, as a function of the inputs and *)
(* of what its out-of-bounds reads found.                                   *)

RunFailed(e) == [status |-> "error", err |-> e, result |-> <<>>]
RunDone(v, g, l) == [status |-> "done", err |-> "", result |-> <<v, g, l>>]

JunkAt(js, n) == IF n <= Len(js) THEN js[n] ELSE 0

RECURSIVE GrossAlone(_, _, _, _, _, _, _)
GrossAlone(k, n, g, xg, idx, w, js) ==
    IF k >= n THEN LpcOk(g, FALSE)
    ELSE LET r == WindowedLpc(Take(Lfilter(g, <<Scale>>, xg), idx), w, 1,
                              JunkAt(js, k + 2))
         IN  IF r.err # "" THEN r
             ELSE GrossAlone(k + 1, n, Convolve(g, r.a), xg, idx, w, js)

EstimateAlone(a, js) ==
    IF Len(a.s) = 0 THEN RunFailed("IndexError")
    ELSE
    LET w == IF Len(a.win) = 0 THEN Hanning(Len(a.s)) ELSE a.win
        x == Linspace(0 - a.s[1], a.s[1], a.nv + 1) \o a.s
        idx == Arange(a.nv + 1, Len(x))
        l == <<Scale, 0 - a.d>>
        sg == Lfilter(<<Scale>>, l, a.s)
        xg == Lfilter(<<Scale>>, l, x)
        r0 == WindowedLpc(sg, w, 1, JunkAt(js, 1))
    IN  IF r0.err # "" THEN RunFailed(r0.err)
        ELSE
        LET g1 == GrossAlone(0, a.ng, r0.a, xg, idx, w, js)
        IN  IF g1.err # "" THEN RunFailed(g1.err)
            ELSE
            LET rg == WindowedLpc(Take(Lfilter(g1.a, <<Scale>>, xg), idx), w,
                                  a.ng, JunkAt(js, a.ng + 2))
            IN  IF rg.err # "" THEN RunFailed(rg.err)
                ELSE
                LET rv == WindowedLpc(Take(Lfilter(rg.a, <<Scale>>, xg), idx), w,
                                      a.nv, JunkAt(js, a.ng + 3))
                IN  IF rv.err # "" THEN RunFailed(rv.err)
                    ELSE RunDone(rv.a, rg.a, l)

LpcCalls == SelectSeq(calls, LAMBDA c : c.fn = "lpc")
LfilterCalls == SelectSeq(calls, LAMBDA c : c.fn = "lfilter")

Junks == [n \in 1..Len(LpcCalls) |-> LpcCalls[n].junk]

\* C5: in any sequence of estimations in one kernel, the outcome of a run
\* (its result, or the exception that ended it) is the outcome of estimating
\* its input tuple alone: nothing a previous run left behind is used.
C5_FrameIndependence ==
    pc \in {"done", "error"} =>
        [status |-> pc, err |-> err,
         result |-> IF pc = "done" THEN result ELSE <<>>]
            = EstimateAlone(args, Junks)

\* a second run in the same kernel has completed, with the default window
C5_Witness ==
    /\ runs = 2 /\ pc = "done"
    /\ args.win = <<>>
    /\ Len(args.s) = MaxN

Stage(p) ==
    CASE p \in {"window", "preframe", "lip"} -> 1    \* Preprocess
      [] p \in {"gross", "loop"} -> 2                \* GrossGlottis
      [] p = "fineg" -> 3                            \* FineGlottis
      [] p = "finev" -> 4                            \* FineVocalTract
      [] p = "result" -> 5                           \* Assemble
      [] p = "done" -> 6
      [] p = "error" -> 0

\* C6: a run moves through Preprocess, GrossGlottis, FineGlottis,
\* FineVocalTract, Assemble in that order: every step stays in its stage or
\* enters the next one, never an earlier or a later one; once a stage has
\* raised, the run is in error, no further cell runs and no result exists.
C6_StageOrder ==
    /\ [](err # "" => (pc = "error" /\ result = <<>>))
    /\ [][/\ pc \notin {"done", "error"}
          /\ pc' # "error" => Stage(pc') \in {Stage(pc), Stage(pc) + 1}
          /\ pc' = "error" => (err' # "" /\ result' = <<>>)]_vars

\* a run whose gross loop went round more than once has assembled its result
C6_Witness ==
    /\ pc = "done"
    /\ args.ng >= 2
    /\ Len(calls) = 2 * args.ng + 7

\* C7: at every step of a run the frame holds the samples the run was given,
\* and so does a window the caller supplied.
C7_InputsUnchanged ==
    /\ s_gvl = args.s
    /\ args.win # <<>> => win = args.win

\* a run with a supplied window on a frame that is not all-zero has completed
C7_Witness ==
    /\ pc = "done"
    /\ args.win # <<>>
    /\ ~AllZero(args.s)

\* sum of squares, in units of 1/Scale^2
Energy(u) == SumSeq([n \in 1..Len(u) |-> u[n] * u[n]])

RECURSIVE Pow4(_)
Pow4(n) == IF n = 0 THEN 1 ELSE 4 * Pow4(n - 1)

CeilDiv(n, m) == (n + m - 1) \div m

\* the fine glottis cell has computed s_g1, the residual of the gross cascade
GrossSucceeded == pc \in {"finev", "result", "done"} \/ (pc = "error" /\ s_g1 # <<>>)

\* C8 (as claimed): whenever the gross cascade has succeeded, the energy of
\* the residual s_g1 left by the final cascade, pre-ramp stripped, is at most
\* the energy of the windowed frame.
C8_ResidualEnergy ==
    (GrossSucceeded /\ ValidArgs /\ WindowOk) =>
        Energy(s_g1) <= Energy(Multiply(s_gvl, win))

\* C8 (amended): whenever the gross cascade has succeeded, the energy of the
\* residual s_g1 is at most 4^(ng+1) times the energy of the integrated
\* padded signal x_gv: each of the ng+1 first-order sections of the cascade
\* has a coefficient of magnitude at most 1.
C8_ResidualEnergyBound ==
    GrossSucceeded =>
        /\ CeilDiv(Energy(s_g1), Pow4(ng + 1)) <= Energy(x_gv)
        /\ Len(s_g1) = Len(s_gvl)

\* a residual of more energy than the windowed frame, from valid inputs
C8_Witness ==
    /\ GrossSucceeded /\ ValidArgs /\ WindowOk
    /\ Energy(s_g1) > Energy(Multiply(s_gvl, win))
    /\ Energy(Multiply(s_gvl, win)) > 0

\* C9 (as claimed): the cascade handed to the fine glottis estimator has
\* ng+1 coefficients.
C9_CascadeOrder ==
    (pc = "fineg" /\ args.ng >= 1) => Len(ag1) = args.ng + 1

\* b[1]*x[n] + b[2]*x[n-1] + ...: the signal x through the polynomial b
Fir(b, x) == SubSeq(Convolve(b, x), 1, Len(x))

LastLfilter == LfilterCalls[Len(LfilterCalls)]

\* the inverse filtering of the last pass of the loop, of the fine glottis
\* cell, of the fine vocal tract cell: the estimate used and its output
AfterLoopPass == pc \in {"loop", "fineg"} /\ range_pos > 0
AfterFineGlottis == pc = "finev"
AfterFineVocalTract == pc \in {"result", "done"}

\* C10 (as claimed): every inverse filtering passes [1] as the numerator and
\* the estimated filter as the denominator, on the integrated padded signal.
C10_EstimateAsDenominator ==
    /\ AfterLoopPass =>
        /\ LastLfilter.b = <<Scale>> /\ LastLfilter.x = "x_gv"
        /\ ag1 = Convolve(LastLfilter.a, ag1x)
        /\ x_v1x = Lfilter(<<Scale>>, LastLfilter.a, x_gv)
    /\ AfterFineGlottis =>
        /\ LastLfilter.b = <<Scale>> /\ LastLfilter.x = "x_gv"
        /\ LastLfilter.a = ag1
        /\ x_g1 = Lfilter(<<Scale>>, ag1, x_gv)
    /\ AfterFineVocalTract =>
        /\ LastLfilter.b = <<Scale>> /\ LastLfilter.x = "x_gv"
        /\ LastLfilter.a = ag
        /\ x_v = Lfilter(<<Scale>>, ag, x_gv)

\* C10 (amended): every inverse filtering (each pass of the gross loop, the
\* fine glottis cell, the fine vocal tract cell) passes the estimated filter
\* as the numerator and [1] as the denominator, on the integrated padded
\* signal x_gv: its output is x_gv through the estimate's polynomial.
C10_EstimateAsNumerator ==
    /\ AfterLoopPass =>
        /\ LastLfilter.a = <<Scale>> /\ LastLfilter.x = "x_gv"
        /\ ag1 = Convolve(LastLfilter.b, ag1x)
        /\ x_v1x = Fir(LastLfilter.b, x_gv)
    /\ AfterFineGlottis =>
        /\ LastLfilter.a = <<Scale>> /\ LastLfilter.x = "x_gv"
        /\ LastLfilter.b = ag1
        /\ x_g1 = Fir(ag1, x_gv)
    /\ AfterFineVocalTract =>
        /\ LastLfilter.a = <<Scale>> /\ LastLfilter.x = "x_gv"
        /\ LastLfilter.b = ag
        /\ x_v = Fir(ag, x_gv)

\* a completed run whose three kinds of inverse filtering all used a filter
\* that is not trivial
C10_Witness ==
    /\ pc = "done"
    /\ args.ng >= 2
    /\ ag1[2] # 0 /\ ag[2] # 0
    /\ x_v # x_gv /\ x_g1 # x_gv /\ x_v1x # x_gv

\* x[idx_pf] spelled out: the samples of x at 0-based indices [nv+1, N+nv+1)
Stripped(x) == SubSeq(x, args.nv + 2, Len(args.s) + args.nv + 1)

\* C11 (as claimed): for a frame of N >= 1 samples and nv >= 1, the padded
\* signal has N + nv + 1 samples, starts at -s[0], holds s[0] at index nv and
\* the frame after it; every stripped residual is the N samples of its
\* filtered signal at indices [nv+1, N+nv+1); and once a signal has been
\* multiplied by the window and handed to lb.lpc, the window has N samples
\* as the signal does.
C11_PaddingAndResiduals ==
    (Len(args.s) >= 1 /\ args.nv >= 1) =>
        /\ x_gvl # <<>> =>
            /\ Len(x_gvl) = Len(args.s) + args.nv + 1
            /\ x_gvl[1] = 0 - args.s[1]
            /\ x_gvl[args.nv + 1] = args.s[1]
            /\ Stripped(x_gvl) = args.s
        /\ x_v1x # <<>> => (s_v1x = Stripped(x_v1x) /\ Len(s_v1x) = Len(args.s))
        /\ x_g1 # <<>> => (s_g1 = Stripped(x_g1) /\ Len(s_g1) = Len(args.s))
        /\ x_v # <<>> => (s_v = Stripped(x_v) /\ Len(s_v) = Len(args.s))
        /\ LpcCalls # <<>> => (Len(s_gv) = Len(args.s) /\ Len(win) = Len(args.s))

\* the orders lb.lpc was asked for, in the order of the invocations
LpcOrders == [n \in 1..Len(LpcCalls) |-> LpcCalls[n].order]

\* the positions in calls of the lb.lpc invocations after the first one
LaterLpcAt ==
    {k \in 1..Len(calls) :
        /\ calls[k].fn = "lpc"
        /\ \E j \in 1..(k - 1) : calls[j].fn = "lpc"}

\* lfilter(est, [1.0], x_gv): an inverse filtering of the integrated padded signal
IsInverseFiltering(c) == c.fn = "lfilter" /\ c.a = <<Scale>> /\ c.x = "x_gv"

====
